---- MODULE Spec2Model ----
(***************************************************************************)
(* The listening / speaking turn-taking logic of the desktop assistant:    *)
(* SpeechRecognitionModule and SpeechRecognitionThread                     *)
(* (modules/speech_recognition_module.py), TextToSpeechModule              *)
(* (modules/text_to_speech_module.py) and the handlers of AIAssistantApp   *)
(* (main.py) that drive them.                                              *)
(*                                                                         *)
(* One foreground thread runs the Qt event loop: every slot and timer      *)
(* callback runs to completion there, so each is one action.  Signals      *)
(* emitted by a background thread to an object of the foreground thread    *)
(* are queued and delivered in FIFO order (mainQueue).  The capture thread *)
(* and the speech tasks advance in steps of their own.                     *)
(***************************************************************************)
EXTENDS Integers, Sequences, FiniteSets, TLC

\* ------------------------------------------------------------------ bounds
\* SpeechRecognitionThread objects alive at once (slots of the model).
MaxThreads == 2
\* Pending single-shot restart timers.
MaxTimers == 2
\* Queued cross-thread signals waiting for the event loop.
MaxQueue == 2
\* SpeakTasks handed to the thread pool and not yet finished.
MaxSpeak == 2

\* --------------------------------------------------------- program constant
max_timeouts == 3

\* Cap of the history counter autoRestarts (it saturates there).
MaxCount == max_timeouts + 2

\* ------------------------------------------------------------------- inputs
\* Recognised utterances, by what process_command does with them.
Texts == {"computer start listening", "computer stop listening", "hello"}

Slots == 1..MaxThreads

Min(a, b) == IF a < b THEN a ELSE b

VARIABLES
    appPc,                \* "constructed" | "running" | "crashed"
    micOk,                \* sr.Microphone() succeeded in __init__ (self.microphone exists)
    speech_thread,        \* 0 (None) or the slot of the thread object
    threads,              \* slot -> thread object
    timeout_count,
    is_listening_enabled,
    timers,               \* pending QTimer.singleShot(7000, check_and_restart_listening)
    mainQueue,            \* queued signals for the foreground thread
    micEnabled,           \* mic_button.isEnabled()
    speaking,             \* TextToSpeechModule.speaking
    ttsQueued,            \* SpeakTasks waiting in the pool
    ttsRunning,           \* SpeakTasks inside engine.runAndWait()
    suspended,            \* history: speech_started handled, speech_finished not yet
    explicitStopped,      \* history: disable_listening() since the last explicit start
    autoRestarts,         \* history: consecutive sessions started by the restart check
    lastHandled,          \* history: the foreground handler that ran last
    voiceStopped,         \* history: the last start/stop request was the direct
                          \*   command "stop listening"
    command_history,      \* AIAssistantApp.command_history
    recent_intents,       \* AIAssistantApp.recent_intents (0 for a tag not in the dict)
    calls,                \* process_command calls so far (the clock of the timestamps)
    recorded,             \* history: every command handed to add_to_command_history
    last,                 \* what the last process_command call did
    input,                \* the text handed to get_command_intent
    result                \* the tag it returned ("none" before the call)

\* The state of the turn-taking logic.
coordVars == <<appPc, micOk, speech_thread, threads, timeout_count, is_listening_enabled,
               timers, mainQueue, micEnabled, speaking, ttsQueued, ttsRunning,
               suspended, explicitStopped, autoRestarts, lastHandled, voiceStopped>>

\* The state of the command router; the specifications of the turn-taking
\* logic leave it alone, and the router's specifications leave coordVars alone.
routerVars == <<command_history, recent_intents, calls, recorded, last, input, result>>

vars == <<appPc, micOk, speech_thread, threads, timeout_count, is_listening_enabled,
          timers, mainQueue, micEnabled, speaking, ttsQueued, ttsRunning,
          suspended, explicitStopped, autoRestarts, lastHandled, voiceStopped,
          command_history, recent_intents, calls, recorded, last, input, result>>

\* ---------------------------------------------------------- capture thread
\* A thread object: pc is the position inside run(); "none" is a free slot,
\* "done" a thread whose run() has returned, "raised" one whose run() was
\* left by an exception.  texts / ends count the text_recognized /
\* listening_ended signals it has emitted.
NoThread == [pc |-> "none", stop |-> FALSE, outcome |-> "none", texts |-> 0, ends |-> 0]

NewThread == [NoThread EXCEPT !.pc = "open"]

isRunning(th) == th.pc \in {"open", "listen", "recognize", "exiting"}

Sig(name) == [sig |-> name, text |-> ""]

TextSig(text) == [sig |-> "text_recognized", text |-> text]

\* The session outcomes that are failures.
Failures == {"mic_error", "timeout", "listen_error", "unknown_value",
             "request_error", "recognize_error"}

\* Finally without the emit of its finally clause.
Finally_NoEmit(th, outcome) ==
    [th |-> [th EXCEPT !.pc = "exiting", !.outcome = outcome], emits |-> <<>>]

\* run() leaves through the finally clause: listening_ended is emitted.
Finally(th, outcome) ==
    [th |-> [th EXCEPT !.pc = "exiting", !.outcome = outcome, !.ends = @ + 1],
     emits |-> <<Sig("listening_ended")>>]

\* with self.microphone as source: adjust_for_ambient_noise(source, 0.5)
OpenResult(th, r) ==
    IF r = "ok"
    THEN [th |-> [th EXCEPT !.pc = "listen"], emits |-> <<>>]
    ELSE Finally(th, "mic_error")

\* recognizer.listen(...) and the stop check that follows it
ListenResult(th, r) ==
    CASE r = "audio" /\ th.stop ->
            [th |-> [th EXCEPT !.pc = "exiting", !.outcome = "stopped", !.ends = @ + 2],
             emits |-> <<Sig("listening_ended"), Sig("listening_ended")>>]
      [] r = "audio" /\ ~th.stop ->
            [th |-> [th EXCEPT !.pc = "recognize"], emits |-> <<>>]
      [] r = "timeout" -> Finally(th, "timeout")
      [] OTHER -> Finally(th, "listen_error")

\* recognizer.recognize_google(audio) and the emit of its text
RecognizeResult(th, r, text) ==
    IF r = "text"
    THEN [th |-> [th EXCEPT !.pc = "exiting", !.outcome = "text", !.texts = @ + 1,
                            !.ends = @ + 1],
          emits |-> <<TextSig(text), Sig("listening_ended")>>]
    ELSE Finally(th, r)

\* ------------------------------------------------------ foreground handlers
\* The handlers are functions of the state the foreground thread owns.
\* raised: an exception is propagating (the rest of the handler is skipped);
\* overflow: the handler needs more thread slots than the model has.
Cur == [speech_thread |-> speech_thread, threads |-> threads,
        timeout_count |-> timeout_count,
        is_listening_enabled |-> is_listening_enabled, timers |-> timers,
        micEnabled |-> micEnabled, ttsQueued |-> ttsQueued,
        raised |-> FALSE, overflow |-> FALSE]

ThreadRunning(s) == s.speech_thread # 0 /\ isRunning(s.threads[s.speech_thread])

\* self.speech_thread = SpeechRecognitionThread(...): the thread object it
\* replaces is released unless it is still running.
Released(s) ==
    IF s.speech_thread # 0 /\ ~isRunning(s.threads[s.speech_thread])
    THEN [s.threads EXCEPT ![s.speech_thread] = NoThread]
    ELSE s.threads

FreeSlots(ths) == {t \in Slots : ths[t].pc = "none"}

LowestFree(ths) == CHOOSE t \in FreeSlots(ths) : \A u \in FreeSlots(ths) : t <= u

\* start_listening without its "Already listening" early return.
start_listening_Unguarded(s) ==
    IF s.raised THEN s
    ELSE LET s1 == [s EXCEPT !.timeout_count = 0, !.micEnabled = FALSE]
             ths == Released(s1)
         IN  IF ~micOk THEN [s1 EXCEPT !.raised = TRUE]
             ELSE IF FreeSlots(ths) = {} THEN [s1 EXCEPT !.overflow = TRUE]
             ELSE [s1 EXCEPT !.threads = [ths EXCEPT ![LowestFree(ths)] = NewThread],
                             !.speech_thread = LowestFree(ths),
                             !.timers = @ + 1]

\* start_listening counting its calls in timeout_count instead of resetting it.
start_listening_Counting(s) ==
    IF s.raised THEN s
    ELSE IF ThreadRunning(s) THEN s
    ELSE LET s1 == [s EXCEPT !.timeout_count = @ + 1, !.micEnabled = FALSE]
             ths == Released(s1)
         IN  IF ~micOk THEN [s1 EXCEPT !.raised = TRUE]
             ELSE IF FreeSlots(ths) = {} THEN [s1 EXCEPT !.overflow = TRUE]
             ELSE [s1 EXCEPT !.threads = [ths EXCEPT ![LowestFree(ths)] = NewThread],
                             !.speech_thread = LowestFree(ths),
                             !.timers = @ + 1]

\* SpeechRecognitionModule.start_listening
start_listening(s) ==
    IF s.raised THEN s
    ELSE IF ThreadRunning(s) THEN s
    ELSE LET s1 == [s EXCEPT !.timeout_count = 0, !.micEnabled = FALSE]
             ths == Released(s1)
         IN  IF ~micOk THEN [s1 EXCEPT !.raised = TRUE]
             ELSE IF FreeSlots(ths) = {} THEN [s1 EXCEPT !.overflow = TRUE]
             ELSE [s1 EXCEPT !.threads = [ths EXCEPT ![LowestFree(ths)] = NewThread],
                             !.speech_thread = LowestFree(ths),
                             !.timers = @ + 1]

\* SpeechRecognitionModule.check_and_restart_listening
check_and_restart_listening(s) ==
    IF s.raised THEN s
    ELSE IF ~ThreadRunning(s)
    THEN IF s.timeout_count < max_timeouts
         THEN start_listening([s EXCEPT !.timeout_count = @ + 1])
         ELSE [s EXCEPT !.timeout_count = 0]
    ELSE s

\* SpeechRecognitionModule.stop_listening
stop_listening(s) ==
    IF s.raised THEN s
    ELSE IF ThreadRunning(s)
    THEN [s EXCEPT !.threads[s.speech_thread].stop = TRUE]
    ELSE [s EXCEPT !.micEnabled = TRUE]

\* TextToSpeechModule.speak with a non-empty text
speak(s) == IF s.raised THEN s ELSE [s EXCEPT !.ttsQueued = @ + 1]

\* AIAssistantApp.handle_assistant_response
handle_assistant_response(s) == speak(s)

\* AIAssistantApp.enable_listening
enable_listening(s) == start_listening([s EXCEPT !.is_listening_enabled = TRUE])

\* AIAssistantApp.disable_listening
disable_listening(s) == stop_listening([s EXCEPT !.is_listening_enabled = FALSE])

\* resume_listening_after_tts without the test of is_listening_enabled.
resume_listening_after_tts_Always(s) == start_listening(s)

\* AIAssistantApp.resume_listening_after_tts
resume_listening_after_tts(s) ==
    IF s.is_listening_enabled THEN start_listening(s) ELSE s

\* AIAssistantApp.process_command, as far as it drives listening and speech:
\* the two direct commands, and every other text answered by one response.
process_command(s, text) ==
    CASE text = "" -> handle_assistant_response(s)
      [] text = "computer start listening" ->
            handle_assistant_response(start_listening(s))
      [] text = "computer stop listening" ->
            handle_assistant_response(stop_listening(s))
      [] OTHER -> handle_assistant_response(s)

\* MainWindow.on_speech_recognized
on_speech_recognized(s, text) == IF text = "" THEN s ELSE process_command(s, text)

\* A handler started a capture session.
NewSession(s, s2) ==
    \E t \in Slots : s2.threads[t].pc = "open" /\ s.threads[t].pc # "open"

\* The state a handler leaves, written back.
Apply(s2) ==
    /\ ~s2.overflow
    /\ s2.timers <= MaxTimers
    /\ s2.ttsQueued + ttsRunning <= MaxSpeak
    /\ speech_thread' = s2.speech_thread
    /\ threads' = s2.threads
    /\ timeout_count' = s2.timeout_count
    /\ is_listening_enabled' = s2.is_listening_enabled
    /\ timers' = s2.timers
    /\ micEnabled' = s2.micEnabled
    /\ ttsQueued' = s2.ttsQueued
    /\ appPc' = IF s2.raised THEN "crashed" ELSE "running"
    /\ UNCHANGED routerVars

\* ---------------------------------------------------------- initial state
Tags == {"weather", "news", "reminder", "time", "help", "general"}

\* No process_command call has been made.
NoCall == [text |-> <<>>, responses |-> <<>>, classified |-> 0, counted |-> 0,
           collaborators |-> <<>>, reports |-> <<>>, speech |-> <<>>, quit |-> <<>>,
           direct |-> <<>>, raised |-> FALSE]

\* AIAssistantApp.__init__: command tracking
RouterInit ==
    /\ command_history = <<>>
    /\ recent_intents = [t \in Tags |-> 0]
    /\ calls = 0
    /\ recorded = <<>>
    /\ last = NoCall
    /\ input = <<>>
    /\ result = "none"

\* AIAssistantApp.__init__ and the modules' constructors: listening and speech
CoordInit ==
    /\ appPc = "constructed"
    /\ micOk \in BOOLEAN
    /\ speech_thread = 0
    /\ threads = [t \in Slots |-> NoThread]
    /\ timeout_count = 0
    /\ is_listening_enabled = FALSE
    /\ timers = 0
    /\ mainQueue = <<>>
    /\ micEnabled = TRUE
    /\ speaking = FALSE
    /\ ttsQueued = 0
    /\ ttsRunning = 0
    /\ suspended = FALSE
    /\ explicitStopped = FALSE
    /\ autoRestarts = 0
    /\ lastHandled = "init"
    /\ voiceStopped = FALSE

\* AIAssistantApp.__init__ and the modules' constructors
Init == CoordInit /\ RouterInit

\* ---------------------------------------------------------------- actions
Alive == appPc = "running"

\* AIAssistantApp.run: the greeting (if configured) and enable_listening()
Run ==
    /\ appPc = "constructed"
    /\ \E greeting \in BOOLEAN :
          Apply(enable_listening(IF greeting THEN speak(Cur) ELSE Cur))
    /\ explicitStopped' = FALSE
    /\ autoRestarts' = 0
    /\ lastHandled' = "run"
    /\ voiceStopped' = FALSE
    /\ UNCHANGED <<micOk, mainQueue, speaking, ttsRunning, suspended>>

\* MainWindow.on_mic_button_clicked -> start_listening_signal -> enable_listening
MicButtonClicked ==
    /\ Alive
    /\ micEnabled
    /\ Apply(enable_listening(Cur))
    /\ explicitStopped' = FALSE
    /\ autoRestarts' = 0
    /\ lastHandled' = "enable_listening"
    /\ voiceStopped' = FALSE
    /\ UNCHANGED <<micOk, mainQueue, speaking, ttsRunning, suspended>>

\* stop_listening_signal -> disable_listening
DisableListening ==
    /\ Alive
    /\ Apply(disable_listening(Cur))
    /\ explicitStopped' = TRUE
    /\ lastHandled' = "disable_listening"
    /\ voiceStopped' = FALSE
    /\ UNCHANGED <<micOk, mainQueue, speaking, ttsRunning, suspended, autoRestarts>>

\* The single-shot timer of start_listening fires.
TimerFire ==
    /\ Alive
    /\ timers > 0
    /\ LET s == [Cur EXCEPT !.timers = @ - 1]
           s2 == check_and_restart_listening(s)
       IN  /\ Apply(s2)
           /\ autoRestarts' = IF NewSession(s, s2)
                              THEN Min(autoRestarts + 1, MaxCount)
                              ELSE autoRestarts
    /\ lastHandled' = "check_and_restart_listening"
    /\ UNCHANGED <<micOk, mainQueue, speaking, ttsRunning, suspended, explicitStopped,
                   voiceStopped>>

Delivered(name) ==
    /\ Alive
    /\ mainQueue # <<>>
    /\ Head(mainQueue).sig = name
    /\ mainQueue' = Tail(mainQueue)

\* thread.listening_ended -> on_listening_ended -> MainWindow.on_listening_ended
OnListeningEnded ==
    /\ Delivered("listening_ended")
    /\ Apply([Cur EXCEPT !.micEnabled = TRUE])
    /\ lastHandled' = "on_listening_ended"
    /\ UNCHANGED <<micOk, speaking, ttsRunning, suspended, explicitStopped, autoRestarts,
                   voiceStopped>>

\* thread.text_recognized -> on_text_recognized -> on_speech_recognized
\*   -> process_text_signal -> process_command
OnTextRecognized ==
    /\ Delivered("text_recognized")
    /\ LET text == Head(mainQueue).text
           start == text = "computer start listening"
       IN  /\ Apply(on_speech_recognized(Cur, text))
           /\ explicitStopped' = IF start THEN FALSE ELSE explicitStopped
           /\ autoRestarts' = IF start THEN 0 ELSE autoRestarts
           /\ voiceStopped' = IF start THEN FALSE
                              ELSE IF text = "computer stop listening" THEN TRUE
                              ELSE voiceStopped
    /\ lastHandled' = "process_command"
    /\ UNCHANGED <<micOk, speaking, ttsRunning, suspended>>

\* tts_module.speech_started -> speech_module.stop_listening
OnSpeechStarted ==
    /\ Delivered("speech_started")
    /\ Apply(stop_listening(Cur))
    /\ suspended' = TRUE
    /\ lastHandled' = "speech_started"
    /\ UNCHANGED <<micOk, speaking, ttsRunning, explicitStopped, autoRestarts, voiceStopped>>

\* tts_module.speech_finished -> resume_listening_after_tts
OnSpeechFinished ==
    /\ Delivered("speech_finished")
    /\ Apply(resume_listening_after_tts(Cur))
    /\ suspended' = FALSE
    /\ autoRestarts' = IF is_listening_enabled THEN 0 ELSE autoRestarts
    /\ lastHandled' = "speech_finished"
    /\ UNCHANGED <<micOk, speaking, ttsRunning, explicitStopped, voiceStopped>>

\* A step of a capture thread leaves the thread object th and emits signals.
ThreadMoves(t, res) ==
    /\ Len(mainQueue) + Len(res.emits) <= MaxQueue
    /\ threads' = [threads EXCEPT ![t] = res.th]
    /\ mainQueue' = mainQueue \o res.emits

\* ThreadFrame with the thread counting its own sessions in timeout_count.
ThreadFrame_Counting ==
    /\ timeout_count' = timeout_count + 1
    /\ UNCHANGED <<appPc, micOk, speech_thread, is_listening_enabled,
                   timers, micEnabled, speaking, ttsQueued, ttsRunning, suspended,
                   explicitStopped, lastHandled, voiceStopped, routerVars>>

\* What a step of a capture thread leaves alone: run() works on the
\* recognizer and the microphone and emits signals.
ThreadFrame ==
    UNCHANGED <<appPc, micOk, speech_thread, timeout_count, is_listening_enabled,
                timers, micEnabled, speaking, ttsQueued, ttsRunning, suspended,
                explicitStopped, lastHandled, voiceStopped, routerVars>>

ThreadOpen(t) ==
    /\ Alive
    /\ threads[t].pc = "open"
    /\ \E r \in {"ok", "mic_error"} : ThreadMoves(t, OpenResult(threads[t], r))
    /\ UNCHANGED autoRestarts
    /\ ThreadFrame

ThreadListen(t) ==
    /\ Alive
    /\ threads[t].pc = "listen"
    /\ \E r \in {"audio", "timeout", "listen_error"} :
          ThreadMoves(t, ListenResult(threads[t], r))
    /\ UNCHANGED autoRestarts
    /\ ThreadFrame

ThreadRecognize(t) ==
    /\ Alive
    /\ threads[t].pc = "recognize"
    /\ \E r \in {"text", "empty", "unknown_value", "request_error", "recognize_error"} :
       \E text \in Texts :
          /\ r # "text" => text = "hello"
          /\ ThreadMoves(t, RecognizeResult(threads[t], r, text))
          /\ autoRestarts' = IF r = "text" THEN 0 ELSE autoRestarts
    /\ ThreadFrame

\* run() returns: isRunning() becomes false.  What the finished session did
\* is dropped from the thread object; its stop_event stays as it is.
ThreadExit(t) ==
    /\ Alive
    /\ threads[t].pc = "exiting"
    /\ threads' = [threads EXCEPT ![t] = [NoThread EXCEPT !.pc = "done",
                                                          !.stop = threads[t].stop]]
    /\ UNCHANGED <<mainQueue, autoRestarts>>
    /\ ThreadFrame

TtsFrame ==
    UNCHANGED <<appPc, micOk, speech_thread, threads, timeout_count,
                is_listening_enabled, timers, micEnabled, suspended,
                explicitStopped, autoRestarts, lastHandled, voiceStopped, routerVars>>

\* The pool starts a SpeakTask: engine.say(text); engine.runAndWait()
TtsTaskStart ==
    /\ Alive
    /\ ttsQueued > 0
    /\ ttsQueued' = ttsQueued - 1
    /\ ttsRunning' = ttsRunning + 1
    /\ UNCHANGED <<mainQueue, speaking>>
    /\ TtsFrame

\* TextToSpeechModule.on_start, called by the engine for a word
TtsOnStart ==
    /\ Alive
    /\ ttsRunning > 0
    /\ ~speaking
    /\ Len(mainQueue) < MaxQueue
    /\ speaking' = TRUE
    /\ mainQueue' = Append(mainQueue, Sig("speech_started"))
    /\ UNCHANGED <<ttsQueued, ttsRunning>>
    /\ TtsFrame

\* TextToSpeechModule.on_finish, called by the engine as the utterance ends
TtsOnFinish ==
    /\ Alive
    /\ ttsRunning > 0
    /\ Len(mainQueue) < MaxQueue
    /\ ttsRunning' = ttsRunning - 1
    /\ speaking' = FALSE
    /\ mainQueue' = IF speaking THEN Append(mainQueue, Sig("speech_finished"))
                    ELSE mainQueue
    /\ UNCHANGED ttsQueued
    /\ TtsFrame

\* on_start called on two workers at once: the test "if not self.speaking"
\* and the assignment that follows it are not one step and no lock covers
\* them, so both workers can pass the test before either sets the flag.
TtsOnStartRacing ==
    /\ Alive
    /\ ttsRunning >= 2
    /\ ~speaking
    /\ Len(mainQueue) + 2 <= MaxQueue
    /\ speaking' = TRUE
    /\ mainQueue' = mainQueue \o <<Sig("speech_started"), Sig("speech_started")>>
    /\ UNCHANGED <<ttsQueued, ttsRunning>>
    /\ TtsFrame

\* on_finish called on two workers at once: both pass "if self.speaking"
\* before either clears the flag.
TtsOnFinishRacing ==
    /\ Alive
    /\ ttsRunning >= 2
    /\ speaking
    /\ Len(mainQueue) + 2 <= MaxQueue
    /\ ttsRunning' = ttsRunning - 2
    /\ speaking' = FALSE
    /\ mainQueue' = mainQueue \o <<Sig("speech_finished"), Sig("speech_finished")>>
    /\ UNCHANGED ttsQueued
    /\ TtsFrame

\* SpeakTask.run catches an engine error: the task ends without callbacks.
TtsTaskError ==
    /\ Alive
    /\ ttsRunning > 0
    /\ ttsRunning' = ttsRunning - 1
    /\ UNCHANGED <<ttsQueued, mainQueue, speaking>>
    /\ TtsFrame

Next ==
    \/ Run
    \/ MicButtonClicked
    \/ DisableListening
    \/ TimerFire
    \/ OnListeningEnded
    \/ OnTextRecognized
    \/ OnSpeechStarted
    \/ OnSpeechFinished
    \/ \E t \in Slots : ThreadOpen(t)
    \/ \E t \in Slots : ThreadListen(t)
    \/ \E t \in Slots : ThreadRecognize(t)
    \/ \E t \in Slots : ThreadExit(t)
    \/ TtsTaskStart
    \/ TtsOnStart
    \/ TtsOnFinish
    \/ TtsOnStartRacing
    \/ TtsOnFinishRacing
    \/ TtsTaskError

Spec == Init /\ [][Next]_vars

\* ------------------------------------------------------------------ claims
Running == {t \in Slots : isRunning(threads[t])}

\* Some step starts a capture session (a thread object enters run()).
SessionStarts == \E t \in Slots : threads'[t].pc = "open" /\ threads[t].pc # "open"

\* C1: in every reachable state at most one SpeechRecognitionThread is
\* running, whatever the interleaving of starts, stops, restart checks,
\* speech signals and thread completion.
C1_AtMostOneCapture == Cardinality(Running) <= 1

\* A restart check has just found a long session still running (it consumed
\* the last timer and scheduled none), and that session is the only one.
C1_Witness ==
    /\ lastHandled = "check_and_restart_listening"
    /\ timers = 0
    /\ Running = {speech_thread}
    /\ \E t \in Running : threads[t].pc = "recognize"

\* C2: while speech output is in progress (speech_started handled,
\* speech_finished not yet), no step starts a capture session.
C2_NoCaptureWhileSuspended == [][(suspended /\ suspended') => ~SessionStarts]_vars

\* C3: with every session ending without text and no explicit start, a
\* restart check never starts a session once max_timeouts consecutive
\* restarts have happened: the count of consecutive restarts stays <= 3.
C3_AutoRestartHalts == autoRestarts <= max_timeouts

\* C4: timeout_count is between 0 and max_timeouts in every reachable state.
C4_TimeoutCountInRange == timeout_count \in 0..max_timeouts

\* Restart checks have restarted listening more than max_timeouts times in a row.
C4_Witness ==
    /\ lastHandled = "check_and_restart_listening"
    /\ autoRestarts > max_timeouts
    /\ timeout_count \in 0..max_timeouts

\* C5: after disable_listening() no step starts a capture session until the
\* next explicit enable_listening() or start request.
C5_StoppedStaysStopped == [][(explicitStopped /\ explicitStopped') => ~SessionStarts]_vars

\* C6: a capture session whose stop_event is set emits no text_recognized
\* afterwards.
C6_NoTextAfterStop ==
    [][\A t \in Slots :
          (threads[t].stop /\ isRunning(threads[t]))
              => threads'[t].texts <= threads[t].texts]_vars

\* The event loop handles speech_finished in this step.
HandlesSpeechFinished ==
    /\ mainQueue # <<>>
    /\ Head(mainQueue).sig = "speech_finished"
    /\ mainQueue' = Tail(mainQueue)
    /\ lastHandled' = "speech_finished"

\* C7: the speech_finished handler starts a capture session only if
\* is_listening_enabled is true; with the flag false it starts none and
\* leaves the coordinator as it was.
C7_ResumeOnlyIfEnabled ==
    [][(HandlesSpeechFinished /\ ~is_listening_enabled)
          => /\ ~SessionStarts
             /\ UNCHANGED <<speech_thread, threads, timeout_count, timers,
                            is_listening_enabled>>]_vars

\* speech_finished has been handled with listening disabled and no session running.
C7_Witness ==
    /\ lastHandled = "speech_finished"
    /\ ~is_listening_enabled
    /\ Running = {}

\* C9: a failed microphone initialisation does not crash the application.
C9_MicFailureDoesNotCrash == ~micOk => appPc # "crashed"

\* C10: a capture session that fails (wait timeout, unintelligible audio,
\* service error, any other exception) emits no text_recognized, emits
\* listening_ended, and no exception leaves run().
C10_FailureEndsQuietly ==
    \A t \in Slots :
        /\ threads[t].pc # "raised"
        /\ threads[t].outcome \in Failures
              => /\ threads[t].pc = "exiting"
                 /\ threads[t].texts = 0
                 /\ threads[t].ends >= 1

\* A session has failed inside the recognition call and emitted listening_ended once.
C10_Witness ==
    \E t \in Slots : threads[t].outcome = "recognize_error" /\ threads[t].ends = 1

\* ---------------------------------------------------------------- fairness
\* The event loop delivers every queued signal and fires every pending
\* timer; a started thread runs to the end of run() (its waits are bounded
\* by the listen and phrase timeouts); the pool runs every task and an
\* utterance ends.  The user (button, disable) need never act.
Deliver == OnListeningEnded \/ OnTextRecognized \/ OnSpeechStarted \/ OnSpeechFinished

ThreadStep ==
    \E t \in Slots : ThreadOpen(t) \/ ThreadListen(t) \/ ThreadRecognize(t) \/ ThreadExit(t)

FairSpec ==
    /\ Init
    /\ [][Next]_vars
    /\ WF_vars(Run)
    /\ WF_vars(Deliver)
    /\ WF_vars(TimerFire)
    /\ WF_vars(ThreadStep)
    /\ WF_vars(TtsTaskStart)
    /\ WF_vars(TtsOnStart)
    /\ WF_vars(TtsOnFinish)

\* A capture session that can still deliver a recognition result.
CaptureActive ==
    \E t \in Slots : threads[t].pc \in {"open", "listen", "recognize"} /\ ~threads[t].stop

\* speech_finished has just been handled with is_listening_enabled true
\* while the capture thread stopped for the speech output had not yet exited.
ResumedWhileStopping ==
    /\ lastHandled = "speech_finished"
    /\ is_listening_enabled
    /\ \E t \in Slots : isRunning(threads[t]) /\ threads[t].stop

\* C8: once speech_finished has been handled with is_listening_enabled true,
\* also while the stopped capture thread is still running, a capture session
\* that can deliver a result is eventually running (unless listening is
\* disabled or speech output starts again first).
C8_ResumeLeadsToCapture ==
    ResumedWhileStopping ~> (CaptureActive \/ ~is_listening_enabled \/ suspended)

NoneText == <<"None">>

UpperCase == <<"A", "B", "C", "D", "E", "F", "G", "H", "I", "J", "K", "L", "M",
               "N", "O", "P", "Q", "R", "S", "T", "U", "V", "W", "X", "Y", "Z">>

LowerCase == <<"a", "b", "c", "d", "e", "f", "g", "h", "i", "j", "k", "l", "m",
               "n", "o", "p", "q", "r", "s", "t", "u", "v", "w", "x", "y", "z">>

lowerChar(c) ==
    IF \E i \in DOMAIN UpperCase : UpperCase[i] = c
    THEN LowerCase[CHOOSE i \in DOMAIN UpperCase : UpperCase[i] = c]
    ELSE c

\* str.lower
lower(t) == [i \in 1..Len(t) |-> lowerChar(t[i])]

\* word in text
Contains(t, w) ==
    \E i \in 0..(Len(t) - Len(w)) : SubSeq(t, i + 1, i + Len(w)) = w

\* text.startswith(prefix)
startswith(t, p) == Len(p) <= Len(t) /\ SubSeq(t, 1, Len(p)) = p

Whitespace == {" ", "\t", "\n"}

RECURSIVE lstrip(_)
lstrip(t) == IF t # <<>> /\ Head(t) \in Whitespace THEN lstrip(Tail(t)) ELSE t

RECURSIVE rstrip(_)
rstrip(t) ==
    IF t # <<>> /\ t[Len(t)] \in Whitespace THEN rstrip(SubSeq(t, 1, Len(t) - 1)) ELSE t

\* str.strip
strip(t) == rstrip(lstrip(t))

\* any(word in text for word in words)
any_in(words, t) == \E i \in DOMAIN words : Contains(t, words[i])

\* ----------------------------------------------------- get_command_intent
weather_words == << <<"w", "e", "a", "t", "h", "e", "r">>, <<"t", "e", "m", "p", "e", "r", "a", "t", "u", "r", "e">>, <<"f", "o", "r", "e", "c", "a", "s", "t">> >>

news_words == << <<"n", "e", "w", "s">>, <<"h", "e", "a", "d", "l", "i", "n", "e", "s">>, <<"l", "a", "t", "e", "s", "t">> >>

reminder_words == << <<"r", "e", "m", "i", "n", "d">>, <<"r", "e", "m", "i", "n", "d", "e", "r">>, <<"s", "c", "h", "e", "d", "u", "l", "e">> >>

time_words == << <<"t", "i", "m", "e">>, <<"d", "a", "t", "e">>, <<"d", "a", "y">> >>

help_words == << <<"h", "e", "l", "p">>, <<"c", "o", "m", "m", "a", "n", "d">>, <<"w", "h", "a", "t", " ", "c", "a", "n", " ", "y", "o", "u", " ", "d", "o">> >>

\* get_command_intent testing the news words before the weather words.
get_command_intent_NewsFirst(text) ==
    LET text_lower == lower(text)
    IN  IF any_in(news_words, text_lower) THEN "news"
        ELSE IF any_in(weather_words, text_lower) THEN "weather"
        ELSE IF any_in(reminder_words, text_lower) THEN "reminder"
        ELSE IF any_in(time_words, text_lower) THEN "time"
        ELSE IF any_in(help_words, text_lower) THEN "help"
        ELSE "general"

\* get_command_intent falling back to "help" instead of "general".
get_command_intent_HelpDefault(text) ==
    LET text_lower == lower(text)
    IN  IF any_in(weather_words, text_lower) THEN "weather"
        ELSE IF any_in(news_words, text_lower) THEN "news"
        ELSE IF any_in(reminder_words, text_lower) THEN "reminder"
        ELSE IF any_in(time_words, text_lower) THEN "time"
        ELSE "help"

\* AIAssistantApp.get_command_intent
get_command_intent(text) ==
    LET text_lower == lower(text)
    IN  IF any_in(weather_words, text_lower) THEN "weather"
        ELSE IF any_in(news_words, text_lower) THEN "news"
        ELSE IF any_in(reminder_words, text_lower) THEN "reminder"
        ELSE IF any_in(time_words, text_lower) THEN "time"
        ELSE IF any_in(help_words, text_lower) THEN "help"
        ELSE "general"

\* The pieces the classified texts are put together from: every keyword,
\* two of them in another letter case, and two pieces that hold no keyword.
Fragments ==
    { <<"w", "e", "a", "t", "h", "e", "r">>,
      <<"t", "e", "m", "p", "e", "r", "a", "t", "u", "r", "e">>,
      <<"f", "o", "r", "e", "c", "a", "s", "t">>,
      <<"n", "e", "w", "s">>,
      <<"h", "e", "a", "d", "l", "i", "n", "e", "s">>,
      <<"l", "a", "t", "e", "s", "t">>,
      <<"r", "e", "m", "i", "n", "d">>,
      <<"r", "e", "m", "i", "n", "d", "e", "r">>,
      <<"s", "c", "h", "e", "d", "u", "l", "e">>,
      <<"t", "i", "m", "e">>,
      <<"d", "a", "t", "e">>,
      <<"d", "a", "y">>,
      <<"h", "e", "l", "p">>,
      <<"c", "o", "m", "m", "a", "n", "d">>,
      <<"w", "h", "a", "t", " ", "c", "a", "n", " ", "y", "o", "u", " ", "d", "o">>,
      <<"W", "E", "A", "T", "H", "E", "R">>,
      <<"N", "e", "w", "s">>,
      <<"h", "e", "l", "l", "o">>,
      <<" ">> }

MaxFrags == 2

RECURSIVE Joined(_)
Joined(n) ==
    IF n = 0 THEN {<<>>}
    ELSE Joined(n - 1) \cup {t \o f : t \in Joined(n - 1), f \in Fragments}

ClassifyInputs == Joined(MaxFrags) \ {<<>>}

MaxEvals == 2

\* The text to classify is given; nothing else has happened.
ClassifyInit ==
    /\ CoordInit
    /\ micOk
    /\ command_history = <<>>
    /\ recent_intents = [t \in Tags |-> 0]
    /\ calls = 0
    /\ recorded = <<>>
    /\ last = NoCall
    /\ input \in ClassifyInputs
    /\ result = "none"

\* One call get_command_intent(input); calls counts the calls made.
Classify ==
    /\ calls < MaxEvals
    /\ result' = get_command_intent(input)
    /\ calls' = calls + 1
    /\ UNCHANGED <<command_history, recent_intents, recorded, last, input>>
    /\ UNCHANGED coordVars

ClassifySpec == ClassifyInit /\ [][Classify]_vars

\* The keyword lists in the order of their priority, with their tags.
Priority == <<"weather", "news", "reminder", "time", "help">>

WordsOf(tag) ==
    CASE tag = "weather" -> weather_words
      [] tag = "news" -> news_words
      [] tag = "reminder" -> reminder_words
      [] tag = "time" -> time_words
      [] tag = "help" -> help_words

\* w occurs in t, letter case ignored.
OccursIgnoringCase(t, w) ==
    \E i \in 0..(Len(t) - Len(w)) :
        \A j \in 1..Len(w) : lowerChar(t[i + j]) = lowerChar(w[j])

\* The ranks of the keyword lists that have a word occurring in t.
Matching(t) ==
    {k \in DOMAIN Priority :
        \E i \in DOMAIN WordsOf(Priority[k]) : OccursIgnoringCase(t, WordsOf(Priority[k])[i])}

\* C19: the keyword lists are tried in the order weather, news, reminder,
\* time, help and the first one with a word occurring in the text (letter
\* case ignored) gives the tag; a text with a weather word is "weather".
C19_FirstMatchWins ==
    result # "none" =>
        /\ \A k \in Matching(input) :
              (\A j \in Matching(input) : k <= j) => result = Priority[k]
        /\ (\E i \in DOMAIN weather_words : OccursIgnoringCase(input, weather_words[i]))
              => result = "weather"

\* A text holding a weather word after a word of a later list has been
\* classified as weather.
C19_Witness ==
    /\ result = "weather"
    /\ Contains(lower(input), <<"n", "e", "w", "s">>)
    /\ Contains(input, <<"W", "E", "A", "T", "H", "E", "R">>)
    /\ 1 \in Matching(input) /\ 2 \in Matching(input)

\* C20: a text with no keyword is "general"; the tag is always one of the
\* six; a repeated call returns the same tag; and a call leaves the command
\* history, the intent counts and the listening state as they were.
C20_GeneralAndPure ==
    [][ /\ result' \in Tags
        /\ Matching(input) = {} => result' = "general"
        /\ result # "none" => result' = result
        /\ UNCHANGED <<command_history, recent_intents, is_listening_enabled,
                       speech_thread, threads, timeout_count>> ]_vars

\* A text with no keyword has been classified twice, as general.
C20_Witness ==
    /\ calls = 2
    /\ Matching(input) = {}
    /\ result = "general"

\* --------------------------------------------------------- command router
\* process_command and what it calls are operators on a record c: the
\* command history and intent counts as the call found them, then changed
\* step by step, and a log of what the call did (responses handed to
\* handle_assistant_response, get_command_intent evaluations,
\* update_intent_frequency calls, collaborator calls and what they reported,
\* calls of the speech module, quit timers, the texts handed to
\* execute_direct_command, records handed to the history, an exception on
\* its way out).  The speech module and the speech output are only logged here:
\* what they do with a call is the subject of Spec.
max_history_size == 20

quit_delay == 2000

RouterCur ==
    [history |-> command_history, intents |-> recent_intents, now |-> calls + 1,
     responses |-> <<>>, classified |-> 0, counted |-> 0, collaborators |-> <<>>,
     reports |-> <<>>, speech |-> <<>>, quit |-> <<>>, direct |-> <<>>, added |-> <<>>,
     raised |-> FALSE]

\* A response: its fixed wording and the values put into it.
Response(msg, args) == [msg |-> msg, args |-> args]

\* AIAssistantApp.handle_assistant_response, as the router sees it: the
\* response goes to the window and to speak(); neither raises.
respond(c, msg, args) ==
    IF c.raised THEN c ELSE [c EXCEPT !.responses = Append(@, Response(msg, args))]

\* "if not text" taking only None as false.
not_text_NoneOnly(text) == text = NoneText

\* "if not text": None and "" are false.
not_text(text) == text = NoneText \/ text = <<>>

\* get_command_intent called by the router: the tag, and one more evaluation.
classify(c) == [c EXCEPT !.classified = @ + 1]

\* add_to_command_history without the limit on the history's size.
add_to_command_history_NoLimit(c, command) ==
    LET rec == [command |-> command, timestamp |-> c.now,
                intent |-> get_command_intent(command)]
    IN  [classify(c) EXCEPT !.history = Append(c.history, rec),
                            !.added = Append(@, rec)]

\* add_to_command_history dropping the newest record instead of the oldest.
add_to_command_history_PopLast(c, command) ==
    LET rec == [command |-> command, timestamp |-> c.now,
                intent |-> get_command_intent(command)]
        appended == Append(c.history, rec)
    IN  [classify(c) EXCEPT
            !.history = IF Len(appended) > max_history_size
                        THEN SubSeq(appended, 1, Len(appended) - 1) ELSE appended,
            !.added = Append(@, rec)]

\* AIAssistantApp.add_to_command_history; the timestamp is the call's number.
add_to_command_history(c, command) ==
    LET rec == [command |-> command, timestamp |-> c.now,
                intent |-> get_command_intent(command)]
        appended == Append(c.history, rec)
    IN  [classify(c) EXCEPT
            !.history = IF Len(appended) > max_history_size
                        THEN Tail(appended) ELSE appended,
            !.added = Append(@, rec)]

\* AIAssistantApp.update_intent_frequency
update_intent_frequency(c, intent) ==
    [c EXCEPT !.intents[intent] = @ + 1, !.counted = @ + 1]

\* AIAssistantApp.show_help
show_help(c) == respond(c, "Here are the things I can help you with:", <<>>)

\* AIAssistantApp.show_command_history: the last five commands, newest first
show_command_history(c) ==
    IF c.history = <<>>
    THEN respond(c, "You haven't given me any commands yet.", <<>>)
    ELSE LET n == Len(c.history)
             num_to_show == Min(5, n)
         IN  respond(c, "Here are your recent commands:",
                     [i \in 1..num_to_show |-> c.history[n + 1 - i].command])

time_commands == << <<"t", "i", "m", "e">>, <<"c", "u", "r", "r", "e", "n", "t", " ", "t", "i", "m", "e">>, <<"w", "h", "a", "t", " ", "t", "i", "m", "e", " ", "i", "s", " ", "i", "t">> >>

date_commands == << <<"d", "a", "t", "e">>, <<"t", "o", "d", "a", "y">>, <<"w", "h", "a", "t", " ", "d", "a", "y", " ", "i", "s", " ", "i", "t">>, <<"c", "u", "r", "r", "e", "n", "t", " ", "d", "a", "t", "e">> >>

repeat_commands == << <<"r", "e", "p", "e", "a", "t">>, <<"r", "e", "p", "e", "a", "t", " ", "l", "a", "s", "t">>, <<"s", "a", "y", " ", "t", "h", "a", "t", " ", "a", "g", "a", "i", "n">> >>

start_commands == << <<"s", "t", "a", "r", "t", " ", "l", "i", "s", "t", "e", "n", "i", "n", "g">>, <<"l", "i", "s", "t", "e", "n">> >>

stop_commands == << <<"s", "t", "o", "p", " ", "l", "i", "s", "t", "e", "n", "i", "n", "g">>, <<"s", "t", "o", "p">> >>

\* command_text in [...]
is_in(command_text, list) == \E i \in DOMAIN list : list[i] = command_text

\* execute_direct_command repeating the newest record, the request itself.
execute_direct_command_RepeatLast(c, command_text) ==
    IF is_in(command_text, time_commands)
    THEN [c |-> respond(c, "The current time is ", <<>>), ret |-> TRUE]
    ELSE IF is_in(command_text, date_commands)
    THEN [c |-> respond(c, "Today is ", <<>>), ret |-> TRUE]
    ELSE IF is_in(command_text, repeat_commands)
    THEN [c |-> IF Len(c.history) > 1
                THEN respond(c, "Your last command was: ",
                             <<c.history[Len(c.history)].command>>)
                ELSE respond(c, "You haven't made any previous commands.", <<>>),
          ret |-> TRUE]
    ELSE IF is_in(command_text, start_commands)
    THEN [c |-> respond([c EXCEPT !.speech = Append(@, "start_listening")],
                        "I'm listening now.", <<>>),
          ret |-> TRUE]
    ELSE IF is_in(command_text, stop_commands)
    THEN [c |-> respond([c EXCEPT !.speech = Append(@, "stop_listening")],
                        "I've stopped listening.", <<>>),
          ret |-> TRUE]
    ELSE [c |-> c, ret |-> FALSE]

\* AIAssistantApp.execute_direct_command: the call's log, and what it returns
execute_direct_command(c, command_text) ==
    IF is_in(command_text, time_commands)
    THEN [c |-> respond(c, "The current time is ", <<>>), ret |-> TRUE]
    ELSE IF is_in(command_text, date_commands)
    THEN [c |-> respond(c, "Today is ", <<>>), ret |-> TRUE]
    ELSE IF is_in(command_text, repeat_commands)
    THEN [c |-> IF Len(c.history) > 1
                THEN respond(c, "Your last command was: ",
                             <<c.history[Len(c.history) - 1].command>>)
                ELSE respond(c, "You haven't made any previous commands.", <<>>),
          ret |-> TRUE]
    ELSE IF is_in(command_text, start_commands)
    THEN [c |-> respond([c EXCEPT !.speech = Append(@, "start_listening")],
                        "I'm listening now.", <<>>),
          ret |-> TRUE]
    ELSE IF is_in(command_text, stop_commands)
    THEN [c |-> respond([c EXCEPT !.speech = Append(@, "stop_listening")],
                        "I've stopped listening.", <<>>),
          ret |-> TRUE]
    ELSE [c |-> c, ret |-> FALSE]

command_prefixes ==
    << <<"c", "o", "m", "p", "u", "t", "e", "r">>, <<"a", "s", "s", "i", "s", "t", "a", "n", "t">>, <<"h", "e", "y", " ", "a", "s", "s", "i", "s", "t", "a", "n", "t">>, <<"e", "x", "e", "c", "u", "t", "e">>, <<"r", "u", "n">> >>

exit_words == << <<"e", "x", "i", "t">>, <<"q", "u", "i", "t">>, <<"c", "l", "o", "s", "e">>, <<"s", "h", "u", "t", "d", "o", "w", "n">> >>

system_help_words == << <<"h", "e", "l", "p">>, <<"w", "h", "a", "t", " ", "c", "a", "n", " ", "y", "o", "u", " ", "d", "o">>, <<"c", "o", "m", "m", "a", "n", "d", "s">> >>

history_words == << <<"h", "i", "s", "t", "o", "r", "y">>, <<"p", "r", "e", "v", "i", "o", "u", "s", " ", "c", "o", "m", "m", "a", "n", "d", "s">>, <<"w", "h", "a", "t", " ", "d", "i", "d", " ", "i", " ", "s", "a", "y">> >>

\* The first prefix of the list the text starts with.
first_prefix(text_lower) ==
    command_prefixes[CHOOSE i \in DOMAIN command_prefixes :
        /\ startswith(text_lower, command_prefixes[i])
        /\ \A j \in 1..(i - 1) : ~startswith(text_lower, command_prefixes[j])]

\* The text with its prefixes stripped one after another.
RECURSIVE strip_prefixes(_)
strip_prefixes(t) ==
    IF \E i \in DOMAIN command_prefixes : startswith(t, command_prefixes[i])
    THEN strip_prefixes(strip(SubSeq(t, Len(first_prefix(t)) + 1, Len(t))))
    ELSE t

\* process_system_command stripping every prefix the text starts with.
process_system_command_StripAll(c, text) ==
    LET text_lower == lower(text)
        is_direct_command ==
            \E i \in DOMAIN command_prefixes : startswith(text_lower, command_prefixes[i])
    IN  IF is_direct_command
        THEN LET command_text == strip_prefixes(text_lower)
             IN  execute_direct_command([c EXCEPT !.direct = Append(@, command_text)],
                                        command_text)
        ELSE IF any_in(exit_words, text_lower)
        THEN [c |-> [respond(c, "Shutting down. Goodbye!", <<>>)
                        EXCEPT !.quit = Append(@, quit_delay)],
              ret |-> TRUE]
        ELSE IF any_in(system_help_words, text_lower)
        THEN [c |-> show_help(c), ret |-> TRUE]
        ELSE IF any_in(history_words, text_lower)
        THEN [c |-> show_command_history(c), ret |-> TRUE]
        ELSE [c |-> c, ret |-> FALSE]

\* AIAssistantApp.process_system_command: the call's log, and what it returns
process_system_command(c, text) ==
    LET text_lower == lower(text)
        is_direct_command ==
            \E i \in DOMAIN command_prefixes : startswith(text_lower, command_prefixes[i])
    IN  IF is_direct_command
        THEN LET prefix == first_prefix(text_lower)
                 command_text == strip(SubSeq(text_lower, Len(prefix) + 1, Len(text_lower)))
             IN  execute_direct_command([c EXCEPT !.direct = Append(@, command_text)],
                                        command_text)
        ELSE IF any_in(exit_words, text_lower)
        THEN [c |-> [respond(c, "Shutting down. Goodbye!", <<>>)
                        EXCEPT !.quit = Append(@, quit_delay)],
              ret |-> TRUE]
        ELSE IF any_in(system_help_words, text_lower)
        THEN [c |-> show_help(c), ret |-> TRUE]
        ELSE IF any_in(history_words, text_lower)
        THEN [c |-> show_command_history(c), ret |-> TRUE]
        ELSE [c |-> c, ret |-> FALSE]

\* ----------------------------------------------------------- collaborators
\* What a collaborator's own work comes to: "ok", a result of the expected
\* shape; "malformed", a result the service sent in another shape (no
\* articles list, a reply of None); "error", an exception inside the
\* collaborator's try block before it calls back.
Outcomes == {"ok", "malformed", "error"}

\* The callback has been handed a result.
reported(c, who, success) ==
    [c EXCEPT !.reports = Append(@, [from |-> who, success |-> success])]

\* AIAssistantApp.handle_weather_response
handle_weather_response(c, success) ==
    IF success
    THEN respond(reported(c, "weather", TRUE), "The weather in ", <<>>)
    ELSE respond(reported(c, "weather", FALSE),
                 "Sorry, I couldn't get the weather information. Please try again later.", <<>>)

\* WeatherModule.get_weather: fields missing from the service's data are
\* read with defaults, so only an exception makes it report a failure.
get_weather(c, outcome) ==
    LET tried == IF outcome = "error" THEN [c EXCEPT !.raised = TRUE]
                 ELSE handle_weather_response(c, TRUE)
    IN  IF tried.raised
        THEN handle_weather_response([tried EXCEPT !.raised = FALSE], FALSE)
        ELSE tried

\* AIAssistantApp.process_weather_command
process_weather_command(c, outcome) ==
    get_weather([c EXCEPT !.collaborators = Append(@, "weather")], outcome)

\* AIAssistantApp.handle_news_response: news_info["articles"][:3] and
\* article['title'] raise on a result of another shape.
handle_news_response(c, success, well_formed) ==
    IF success
    THEN IF well_formed
         THEN respond(reported(c, "news", TRUE), "Here are the latest headlines: ", <<>>)
         ELSE [reported(c, "news", TRUE) EXCEPT !.raised = TRUE]
    ELSE respond(reported(c, "news", FALSE),
                 "Sorry, I couldn't get the latest news. Please try again later.", <<>>)

\* get_news whose except block does not call back.
get_news_Silent(c, outcome) ==
    LET tried == IF outcome = "error" THEN [c EXCEPT !.raised = TRUE]
                 ELSE handle_news_response(c, TRUE, outcome = "ok")
    IN  [tried EXCEPT !.raised = FALSE]

\* NewsModule.get_news: the callback runs inside the try block, and the
\* except block calls it again with success False and the dummy headlines.
get_news(c, outcome) ==
    LET tried == IF outcome = "error" THEN [c EXCEPT !.raised = TRUE]
                 ELSE handle_news_response(c, TRUE, outcome = "ok")
    IN  IF tried.raised
        THEN handle_news_response([tried EXCEPT !.raised = FALSE], FALSE, TRUE)
        ELSE tried

\* AIAssistantApp.process_news_command
process_news_command(c, outcome) ==
    get_news([c EXCEPT !.collaborators = Append(@, "news")], outcome)

\* AIAssistantApp.process_reminder_command
process_reminder_command(c) == respond(c, "I've set a reminder for you", <<>>)

\* handle_ai_response speaking the response field of a failure.
handle_ai_response_Reply(c, success, reply) ==
    IF success
    THEN respond(reported(c, "ai", TRUE), reply, <<>>)
    ELSE respond(reported(c, "ai", FALSE), reply, <<>>)

\* AIAssistantApp.handle_ai_response
handle_ai_response(c, success, reply) ==
    IF success
    THEN respond(reported(c, "ai", TRUE), reply, <<>>)
    ELSE respond(reported(c, "ai", FALSE),
                 "Sorry, I couldn't process your request. Please try again.", <<>>)

\* AIModule.process_query
process_query(c, outcome) ==
    LET c0 == [c EXCEPT !.collaborators = Append(@, "ai")]
        tried == IF outcome = "error" THEN [c0 EXCEPT !.raised = TRUE]
                 ELSE handle_ai_response(c0, TRUE,
                          IF outcome = "ok" THEN "{response}" ELSE "None")
    IN  IF tried.raised
        THEN handle_ai_response([tried EXCEPT !.raised = FALSE], FALSE,
                                "I encountered an error processing your request.")
        ELSE tried

\* process_command classifying and counting before the system commands.
process_command_CountFirst(c, text, outcome) ==
    IF not_text(text)
    THEN respond(c, "I didn't catch that. Could you please speak again?", <<>>)
    ELSE LET command_intent == get_command_intent(text)
             counted == update_intent_frequency(
                            classify(add_to_command_history(c, text)), command_intent)
             system == process_system_command(counted, text)
         IN  IF system.ret THEN system.c
             ELSE IF command_intent = "weather" THEN process_weather_command(system.c, outcome)
             ELSE IF command_intent = "news" THEN process_news_command(system.c, outcome)
             ELSE IF command_intent = "reminder" THEN process_reminder_command(system.c)
             ELSE process_query(system.c, outcome)

\* AIAssistantApp.process_command, as far as it routes the command
route_command(c, text, outcome) ==
    IF not_text(text)
    THEN respond(c, "I didn't catch that. Could you please speak again?", <<>>)
    ELSE LET system == process_system_command(add_to_command_history(c, text), text)
         IN  IF system.ret THEN system.c
             ELSE LET command_intent == get_command_intent(text)
                      counted == update_intent_frequency(classify(system.c), command_intent)
                  IN  IF command_intent = "weather"
                      THEN process_weather_command(counted, outcome)
                      ELSE IF command_intent = "news"
                      THEN process_news_command(counted, outcome)
                      ELSE IF command_intent = "reminder"
                      THEN process_reminder_command(counted)
                      ELSE process_query(counted, outcome)

\* One call process_command(text), from the text box or a recognised
\* utterance.  The event loop that makes the call runs only if run() got
\* past start_listening, that is with a working microphone.
ProcessCommand(text, outcome) ==
    /\ micOk
    /\ \E c \in {route_command(RouterCur, text, outcome)} :
           /\ command_history' = c.history
           /\ recent_intents' = c.intents
           /\ recorded' = recorded \o c.added
           /\ last' = [text |-> text, responses |-> c.responses,
                       classified |-> c.classified, counted |-> c.counted,
                       collaborators |-> c.collaborators, reports |-> c.reports,
                       speech |-> c.speech, quit |-> c.quit, direct |-> c.direct,
                       raised |-> c.raised]
    /\ calls' = calls + 1
    /\ UNCHANGED <<input, result>>
    /\ UNCHANGED coordVars

RouterTexts ==
    { <<>>, NoneText,
      <<"e", "x", "i", "t">>, <<"p", "l", "e", "a", "s", "e", " ", "q", "u", "i", "t", " ", "n", "o", "w">>, <<"C", "l", "o", "s", "e", " ", "t", "h", "e", " ", "w", "i", "n", "d", "o", "w">>, <<"h", "e", "l", "p", " ", "m", "e", " ", "q", "u", "i", "t">>,
      <<"h", "e", "l", "p">>, <<"s", "h", "o", "w", " ", "h", "i", "s", "t", "o", "r", "y">>, <<"w", "h", "a", "t", "'", "s", " ", "t", "h", "e", " ", "w", "e", "a", "t", "h", "e", "r">>, <<"l", "a", "t", "e", "s", "t", " ", "n", "e", "w", "s">>,
      <<"r", "e", "m", "i", "n", "d", " ", "m", "e", " ", "t", "o", " ", "c", "a", "l", "l", " ", "m", "o", "m">>, <<"w", "h", "a", "t", " ", "t", "i", "m", "e", " ", "i", "s", " ", "i", "t">>, <<"h", "e", "l", "l", "o">>,
      <<"c", "o", "m", "p", "u", "t", "e", "r", " ", "t", "i", "m", "e">>, <<"e", "x", "e", "c", "u", "t", "e", " ", "d", "a", "t", "e">>, <<"c", "o", "m", "p", "u", "t", "e", "r", " ", "r", "e", "p", "e", "a", "t">>, <<"C", "o", "m", "p", "u", "t", "e", "r", " ", "R", "E", "P", "E", "A", "T">>,
      <<"a", "s", "s", "i", "s", "t", "a", "n", "t", " ", "s", "t", "a", "r", "t", " ", "l", "i", "s", "t", "e", "n", "i", "n", "g">>, <<"r", "u", "n", " ", "s", "t", "o", "p">>, <<"h", "e", "y", " ", "a", "s", "s", "i", "s", "t", "a", "n", "t", " ", "l", "i", "s", "t", "e", "n">>,
      <<"c", "o", "m", "p", "u", "t", "e", "r", " ", "e", "x", "i", "t">>, <<"a", "s", "s", "i", "s", "t", "a", "n", "t", " ", "h", "e", "l", "p">>, <<"h", "e", "y", " ", "a", "s", "s", "i", "s", "t", "a", "n", "t", " ", "s", "h", "o", "w", " ", "h", "i", "s", "t", "o", "r", "y">>,
      <<"c", "o", "m", "p", "u", "t", "e", "r", " ", "t", "e", "l", "l", " ", "m", "e", " ", "t", "h", "e", " ", "w", "e", "a", "t", "h", "e", "r">>, <<"c", "o", "m", "p", "u", "t", "e", "r", " ", "r", "u", "n", " ", "t", "i", "m", "e">>, <<"r", "u", "n", "n", "i", "n", "g", " ", "l", "a", "t", "e">> }

MaxCalls == 2

RouterNext ==
    \E text \in RouterTexts, outcome \in Outcomes :
        calls < MaxCalls /\ ProcessCommand(text, outcome)

RouterSpec == Init /\ [][RouterNext]_vars

\* ------------------------------------------------------ claims: the router
\* C14: every call of process_command, whatever its text, its path and the
\* collaborator's outcome, hands exactly one response to
\* handle_assistant_response.
C14_OneResponsePerCall == calls > 0 => Len(last.responses) = 1

\* The news handler raised on a malformed result, get_news called it again
\* with the failure, and the call still gave one response.
C14_Witness ==
    /\ calls > 0
    /\ Len(last.reports) = 2
    /\ last.collaborators = <<"news">>
    /\ Len(last.responses) = 1

Apology(who) ==
    CASE who = "weather" ->
            "Sorry, I couldn't get the weather information. Please try again later."
      [] who = "news" -> "Sorry, I couldn't get the latest news. Please try again later."
      [] who = "ai" -> "Sorry, I couldn't process your request. Please try again."

\* C15: when a collaborator reports success = false the one response is
\* that collaborator's fixed apology, and no exception leaves process_command.
C15_FixedApology ==
    calls > 0 =>
        /\ ~last.raised
        /\ \A i \in DOMAIN last.reports :
              ~last.reports[i].success =>
                  last.responses = <<Response(Apology(last.reports[i].from), <<>>)>>

\* The collaborator has reported a failure in the last call.
Failed(who) ==
    /\ calls > 0
    /\ \E i \in DOMAIN last.reports :
          last.reports[i].from = who /\ ~last.reports[i].success

\* The weather module has reported a failure and its apology is the response.
C15_Witness ==
    Failed("weather") /\ last.responses = <<Response(Apology("weather"), <<>>)>>

\* C16: process_command with an empty or None text gives the response
\* "I didn't catch that. Could you please speak again?", adds no history
\* record, updates no intent count and calls no collaborator.
C16_EmptyTextApology ==
    [][ (calls' = calls + 1 /\ last'.text \in {<<>>, NoneText}) =>
            /\ last'.responses =
                  <<Response("I didn't catch that. Could you please speak again?", <<>>)>>
            /\ UNCHANGED <<command_history, recent_intents>>
            /\ last'.counted = 0
            /\ last'.collaborators = <<>> ]_vars

\* An empty text has been processed after a command that is in the history.
C16_Witness ==
    /\ calls = 2
    /\ last.text = <<>>
    /\ Len(command_history) = 1
    /\ Len(last.responses) = 1

\* The text starts with one of the command prefixes.
HasPrefix(text) ==
    \E i \in DOMAIN command_prefixes : startswith(lower(text), command_prefixes[i])

\* A text without a prefix that holds one of the exit words.
ExitInput(text) ==
    /\ text \notin {<<>>, NoneText}
    /\ ~HasPrefix(text)
    /\ any_in(exit_words, lower(text))

DirectLiteral(text) ==
    /\ HasPrefix(text)
    /\ LET text_lower == lower(text)
           rest == strip(SubSeq(text_lower, Len(first_prefix(text_lower)) + 1,
                                Len(text_lower)))
       IN  \/ is_in(rest, time_commands) \/ is_in(rest, date_commands)
           \/ is_in(rest, repeat_commands) \/ is_in(rest, start_commands)
           \/ is_in(rest, stop_commands)

\* The response of the system command whose keyword the text holds.
SystemReply(text) ==
    IF any_in(exit_words, lower(text)) THEN "Shutting down. Goodbye!"
    ELSE IF any_in(system_help_words, lower(text))
    THEN "Here are the things I can help you with:"
    ELSE "Here are your recent commands:"

\* C18: a non-empty text that holds an exit, help or history keyword and is
\* not a prefix followed by a literal direct command is handled as that
\* system command and not dispatched to a collaborator, also when it starts
\* with a prefix.
C18_SystemKeywordsFirst ==
    ( /\ calls > 0
      /\ last.text \notin {<<>>, NoneText}
      /\ ~DirectLiteral(last.text)
      /\ \/ any_in(exit_words, lower(last.text))
         \/ any_in(system_help_words, lower(last.text))
         \/ any_in(history_words, lower(last.text)) ) =>
        /\ last.collaborators = <<>>
        /\ Len(last.responses) = 1
        /\ last.responses[1].msg = SystemReply(last.text)

\* ------------------------------------------------------ the command history
\* Long runs of calls: a filler command, and now and then another command
\* or an empty text (which is a call but leaves no record).
Filler == <<"h", "e", "l", "l", "o">>

HistTexts == {Filler, <<"l", "a", "t", "e", "s", "t", " ", "n", "e", "w", "s">>,
              <<"c", "o", "m", "p", "u", "t", "e", "r", " ", "r", "e", "p", "e", "a", "t">>, <<>>}

HistCalls == 25

MaxSpecial == 1

\* The calls so far whose text was not the filler.
Specials ==
    (calls - Len(recorded))
        + Cardinality({i \in DOMAIN recorded : recorded[i].command # Filler})

HistoryNext ==
    \E text \in HistTexts :
        /\ calls < HistCalls
        /\ text # Filler => Specials < MaxSpecial
        /\ ProcessCommand(text, "ok")

HistorySpec == Init /\ [][HistoryNext]_vars

\* C12: the command history never holds more than 20 records.
C12_HistoryBounded == Len(command_history) <= max_history_size

\* More than 20 commands have been recorded and the history is full.
C12_Witness ==
    /\ Len(recorded) > max_history_size
    /\ Len(command_history) = max_history_size

\* C13: after n calls of add_to_command_history the history holds exactly
\* the last min(n, 20) recorded commands, in the order of the calls.
C13_LastTwentyInOrder ==
    LET n == Len(recorded)
        k == Min(n, max_history_size)
    IN  /\ Len(command_history) = k
        /\ \A i \in 1..k : command_history[i] = recorded[n - k + i]

\* After 25 calls of add_to_command_history the history holds 20 records and
\* the oldest one is that of call 6.
C13_Witness ==
    /\ Len(recorded) = 25
    /\ Len(command_history) = 20
    /\ command_history[1] = recorded[6]
    /\ command_history[1] # recorded[5]

\* ------------------------------------------- claims: prefixes, counts, repeat
\* The prefixes of the list the lower-cased text starts with, by position.
MatchingPrefixes(text) ==
    {i \in DOMAIN command_prefixes : startswith(lower(text), command_prefixes[i])}

\* The lower-cased text without its first n characters, trimmed.
Remainder(text, n) == strip(SubSeq(lower(text), n + 1, Len(text)))

\* C21: process_system_command strips exactly one prefix, the first of the
\* list [computer, assistant, hey assistant, execute, run] the lower-cased
\* text starts with, and hands the trimmed remainder to the direct-command
\* table as it is: "computer run time" gives "run time", which is not the
\* direct command "time".
C21_OnePrefixStripped ==
    (calls > 0 /\ last.text \notin {<<>>, NoneText}) =>
        /\ MatchingPrefixes(last.text) = {} => last.direct = <<>>
        /\ \A i \in MatchingPrefixes(last.text) :
              (\A j \in MatchingPrefixes(last.text) : i <= j) =>
                  last.direct = <<Remainder(last.text, Len(command_prefixes[i]))>>
        /\ last.text = <<"c", "o", "m", "p", "u", "t", "e", "r", " ", "r", "u", "n", " ", "t", "i", "m", "e">> =>
              /\ last.direct = << <<"r", "u", "n", " ", "t", "i", "m", "e">> >>
              /\ \A k \in DOMAIN last.responses :
                    last.responses[k].msg # "The current time is "

\* "computer run time" has been processed: "run time" went to the
\* direct-command table, matched nothing, and the text went on to the AI module.
C21_Witness ==
    /\ calls > 0
    /\ last.text = <<"c", "o", "m", "p", "u", "t", "e", "r", " ", "r", "u", "n", " ", "t", "i", "m", "e">>
    /\ last.direct = << <<"r", "u", "n", " ", "t", "i", "m", "e">> >>
    /\ last.collaborators = <<"ai">>

\* The sum of the intent counts.
IntentTotal ==
    recent_intents["weather"] + recent_intents["news"] + recent_intents["reminder"]
        + recent_intents["time"] + recent_intents["help"] + recent_intents["general"]

\* C22: after any sequence of process_command calls the intent counts sum
\* to the number of history records ever added.
C22_CountsMatchRecords == IntentTotal = Len(recorded)

\* The text is a prefix followed by one of the repeat commands.
RepeatRequest(text) ==
    /\ text \notin {<<>>, NoneText}
    /\ MatchingPrefixes(text) # {}
    /\ is_in(Remainder(text, Len(first_prefix(lower(text)))), repeat_commands)

\* C23: a repeat request reports the command recorded immediately before
\* the request itself, and "no previous commands" when the request is the
\* only record ever made; also when the history is at its capacity.
C23_RepeatGivesPrevious ==
    (calls > 0 /\ RepeatRequest(last.text)) =>
        last.responses =
            IF Len(recorded) > 1
            THEN <<Response("Your last command was: ",
                            <<recorded[Len(recorded) - 1].command>>)>>
            ELSE <<Response("You haven't made any previous commands.", <<>>)>>

\* A repeat request made with the history at its capacity has reported the
\* command before it.
C23_Witness ==
    /\ Len(recorded) > max_history_size
    /\ Len(command_history) = max_history_size
    /\ RepeatRequest(last.text)
    /\ last.responses = <<Response("Your last command was: ", <<Filler>>)>>

\* --------------------------------------------------- claims: restart checks
\* A restart check starts a capture session in this step.
RestartCheckRestarts ==
    /\ SessionStarts
    /\ lastHandled' = "check_and_restart_listening"

\* C24: a restart check that finds no running session with timeout_count =
\* k < 3 restarts listening and leaves timeout_count = k + 1 with the new
\* session running; the auto-restart path never resets the count to 0.
C24_RestartCounts ==
    [][(RestartCheckRestarts /\ timeout_count < max_timeouts)
          => timeout_count' = timeout_count + 1]_vars

\* The current session has ended without text (timeout or error), with no
\* stop requested and the auto-restart not halted.
EndedWithoutText ==
    /\ speech_thread # 0
    /\ threads[speech_thread].pc = "exiting"
    /\ threads[speech_thread].outcome \in Failures
    /\ ~threads[speech_thread].stop
    /\ timeout_count < max_timeouts
    /\ ~explicitStopped
    /\ ~suspended

\* A session newer than the one that ended has been started.
NewSessionStarted == \E t \in Slots : threads[t].pc = "open"

\* C25: whenever a capture session ends without text while auto-restart has
\* not halted and no stop was requested, a restart check eventually starts a
\* new session, also when the session was still running as its own check
\* fired (unless listening is stopped or speech output starts first).
C25_EndedSessionRestarts ==
    EndedWithoutText ~> (NewSessionStarted \/ explicitStopped \/ suspended)

\* ------------------------------------- claims: thread, signals and timers
\* A capture thread moves on inside run() in this step.
ThreadAdvances ==
    \E t \in Slots : isRunning(threads[t]) /\ threads'[t].pc # threads[t].pc

\* The signals this step has put into the event loop's queue.
Emitted ==
    IF Len(mainQueue') > Len(mainQueue)
    THEN SubSeq(mainQueue', Len(mainQueue) + 1, Len(mainQueue'))
    ELSE <<>>

\* C26: a step of the capture thread leaves timeout_count, speech_thread and
\* is_listening_enabled as they were; all it does to the coordinator is emit
\* text_recognized and listening_ended.
C26_ThreadWritesNoCoordinatorState ==
    [][ThreadAdvances =>
          /\ UNCHANGED <<timeout_count, speech_thread, is_listening_enabled>>
          /\ Len(mainQueue') >= Len(mainQueue)
          /\ SubSeq(mainQueue', 1, Len(mainQueue)) = mainQueue
          /\ \A i \in DOMAIN Emitted :
                Emitted[i].sig \in {"text_recognized", "listening_ended"}]_vars

\* A capture thread has recognised a text and emitted both of its signals
\* while it is still the coordinator's current thread.
C26_Witness ==
    /\ speech_thread # 0
    /\ threads[speech_thread].outcome = "text"
    /\ threads[speech_thread].texts = 1
    /\ threads[speech_thread].ends = 1
    /\ is_listening_enabled

\* C27: after the direct command "stop listening" capture stays stopped: the
\* speech_finished of its confirmation starts no capture session, and the
\* flag read on speech_finished agrees with that last request (it is false).
C27_VoiceStopStaysStopped ==
    [][(HandlesSpeechFinished /\ voiceStopped)
          => (~SessionStarts /\ ~is_listening_enabled)]_vars

\* C28: a capture session emits listening_ended exactly once on every exit
\* path of run(): text, timeout, recognition error, stop during capture.
C28_ListeningEndedOnce ==
    \A t \in Slots : threads[t].pc = "exiting" => threads[t].ends = 1

\* The speech signals among the signals this step has emitted.
SpeechEmitted ==
    SelectSeq(Emitted, LAMBDA m : m.sig \in {"speech_started", "speech_finished"})

\* C29: speech_started and speech_finished alternate, speech_started first:
\* a speech_started is emitted only when the last speech signal was not a
\* speech_started, a speech_finished only when it was (the flag speaking
\* records which), and never two in one go.
C29_SpeechSignalsAlternate ==
    [][ \/ SpeechEmitted = <<>>
        \/ SpeechEmitted = <<Sig("speech_started")>> /\ ~speaking
        \/ SpeechEmitted = <<Sig("speech_finished")>> /\ speaking ]_vars

\* C30: at most one restart check (single-shot timer of start_listening) is
\* pending at any time.
C30_OnePendingRestartCheck == timers <= 1

====
